---- MODULE Spec2Model ----
(***************************************************************************)
(* Model of src/modules/dpc-rankings.ts (class DPCRankings).               *)
(*                                                                         *)
(* Representation of JavaScript values:                                    *)
(*   - a string is a sequence of fragments; cell texts and query           *)
(*     arguments are sequences of one-character fragments, a string        *)
(*     literal of the source is a single fragment, and a template literal  *)
(*     is the concatenation (\o) of its parts;                             *)
(*   - null is the record Null;                                            *)
(*   - a Map is the sequence of its entries in insertion order, each       *)
(*     entry holding the key object (with its reference) and the value;    *)
(*   - a promise is a record [state, value] that settles at most once.     *)
(***************************************************************************)
EXTENDS Naturals, Sequences, FiniteSets

VARIABLES
    tableHtml,  \* the HTML fragment handed to _parseRanks
    ranks,      \* the Map returned by _parseRanks, once it has run
    lookup,     \* one lookup handler applied to `ranks`
    calls,      \* the calls of the public operations, by call id
    requests    \* the requests received by the fetch collaborator

vars == <<tableHtml, ranks, lookup, calls, requests>>

(***************************************************************************)
(* Bounds of the model.                                                    *)
(***************************************************************************)
MaxRows == 4        \* rows (tr) of the first .wikitable element
MaxArgLen == 2      \* characters of a team-name argument
MaxCalls == 2       \* calls of public operations in one behaviour

(***************************************************************************)
(* Strings.                                                                *)
(***************************************************************************)
Upper == <<"A","B","C","D","E","F","G","H","I","J","K","L","M",
           "N","O","P","Q","R","S","T","U","V","W","X","Y","Z">>
Lower == <<"a","b","c","d","e","f","g","h","i","j","k","l","m",
           "n","o","p","q","r","s","t","u","v","w","x","y","z">>

LowerChar(c) ==
    IF \E i \in DOMAIN Upper : Upper[i] = c
    THEN Lower[CHOOSE i \in DOMAIN Upper : Upper[i] = c]
    ELSE c

\* String.prototype.toLowerCase
toLowerCase(s) == [i \in DOMAIN s |-> LowerChar(s[i])]

Null == [null |-> TRUE]

SeqsUpTo(S, n) == UNION {[1..k -> S] : k \in 0..n}

(***************************************************************************)
(* The HTML fragment, as the queries of _parseRanks see it.                *)
(*   found : $('.wikitable') selects at least one element                  *)
(*   rows  : the tr descendants of the first such element, each with       *)
(*       expandChild : the row has the class 'expand-child'                *)
(*       style       : its style attribute (NoStyle: no attribute)         *)
(*       td0b        : texts of the b elements of its td 0                 *)
(*       td1a        : texts of the '.team-template-text a' of its td 1    *)
(*       td2b        : texts of the b elements of its td 2                 *)
(***************************************************************************)
RANK_TABLE_OFFSET == 2
CLINCHED_COLOR_INDICATOR == <<"background-color:rgb(204,255,204)">>
INELIGIBLE_COLOR_INDICATOR == <<"background-color:rgb(255,204,204)">>

NoStyle == [undefined |-> TRUE]
HasStyle(s) == [undefined |-> FALSE, text |-> s]

\* thisRow.attr('style') === indicator
StyleIs(style, indicator) ==
    /\ ~style.undefined
    /\ style.text = indicator

\* selection.eq(0).text(): the text of the first element, '' when none
FirstText(selection) ==
    IF selection = <<>> THEN <<>> ELSE Head(selection)

\* $('.wikitable').eq(0).find('tr')
rankTableRows(html) == IF html.found THEN html.rows ELSE <<>>

\* The mutant of MapSet: keys compared by their contents.
MapSetByContent(m, k, v) ==
    IF \E j \in DOMAIN m : m[j].key.rank = k.rank /\ m[j].key.team = k.team
    THEN [j \in DOMAIN m |->
            IF m[j].key.rank = k.rank /\ m[j].key.team = k.team
            THEN [key |-> m[j].key, value |-> v] ELSE m[j]]
    ELSE Append(m, [key |-> k, value |-> v])

\* Map.prototype.set: keys are compared by reference
MapSet(m, k, v) ==
    IF \E j \in DOMAIN m : m[j].key = k
    THEN [j \in DOMAIN m |->
            IF m[j].key = k THEN [key |-> k, value |-> v] ELSE m[j]]
    ELSE Append(m, [key |-> k, value |-> v])

\* Map.prototype.get
MapGet(m, k) ==
    m[CHOOSE j \in DOMAIN m : m[j].key = k].value

\* the test of line 144, negated
RowIsSkipped(row) == row.expandChild

\* The mutant of IsClinched: any style attribute counts as clinched.
IsClinchedAnyStyle(row) == ~row.style.undefined

IsClinched(row) == StyleIs(row.style, CLINCHED_COLOR_INDICATOR)
IsIneligible(row) == StyleIs(row.style, INELIGIBLE_COLOR_INDICATOR)

\* the body of the loop for row i (0-based index i, the key object is
\* allocated in iteration i, so i is its reference)
ParseRow(map, row, i) ==
    IF RowIsSkipped(row)
    THEN map
    ELSE LET rank == FirstText(row.td0b)
             team == FirstText(row.td1a)
             score == FirstText(row.td2b)
         IN MapSet(map,
                   [ref |-> i, rank |-> rank, team |-> team],
                   [rank |-> rank, team |-> team, score |-> score,
                    isClinched |-> IsClinched(row),
                    isIneligible |-> IsIneligible(row)])

RECURSIVE ParseLoop(_, _, _)
ParseLoop(map, rows, i) ==
    IF i < Len(rows)
    THEN ParseLoop(ParseRow(map, rows[i + 1], i), rows, i + 1)
    ELSE map

\* The mutant of _parseRanks: the two header rows are not skipped.
_parseRanksFromFirstRow(html) == ParseLoop(<<>>, rankTableRows(html), 0)

_parseRanks(html) == ParseLoop(<<>>, rankTableRows(html), RANK_TABLE_OFFSET)

(***************************************************************************)
(* Inputs of the extraction check.                                         *)
(***************************************************************************)
Styles == {NoStyle, HasStyle(CLINCHED_COLOR_INDICATOR),
           HasStyle(INELIGIBLE_COLOR_INDICATOR), HasStyle(<<"color:red">>)}

\* the three cell selections of a row: all empty, or all with a text
ParseCells == {<<<<>>, <<>>, <<>>>>,
               <<<< <<"1">> >>, << <<"O","G">> >>, << <<"9">> >>>>}

MkRow(e, s, c) ==
    [expandChild |-> e, style |-> s, td0b |-> c[1], td1a |-> c[2], td2b |-> c[3]]

ParseRowSet == {MkRow(e, s, c) : e \in BOOLEAN, s \in Styles, c \in ParseCells}

NoWikitable == [found |-> FALSE, rows |-> <<>>]
Wikitable(rows) == [found |-> TRUE, rows |-> rows]


NotRun == [done |-> FALSE, map |-> <<>>]
NoLookup == [op |-> "none"]

\* _parseRanks(tableHtml) is evaluated
Parse ==
    /\ ~ranks.done
    /\ ranks' = [done |-> TRUE, map |-> _parseRanks(tableHtml)]
    /\ UNCHANGED <<tableHtml, lookup, calls, requests>>

InitParse ==
    /\ \/ tableHtml = NoWikitable
       \/ \E n \in 0..MaxRows : \E rows \in [1..n -> ParseRowSet] :
            tableHtml = Wikitable(rows)
    /\ ranks = NotRun
    /\ lookup = NoLookup
    /\ calls = <<>>
    /\ requests = <<>>

NextParse == Parse

SpecParse == InitParse /\ [][NextParse]_vars

(***************************************************************************)
(* Promises.  resolve and reject of `new Promise((resolve, reject) => ..)` *)
(* settle the promise when it is pending and do nothing otherwise.         *)
(***************************************************************************)
Pending == [state |-> "pending", value |-> <<>>]

\* The mutant of Settle: a later resolve or reject replaces the outcome.
SettleOverwrite(p, kind, v) == [state |-> kind, value |-> v]

Settle(p, kind, v) ==
    IF p.state = "pending" THEN [state |-> kind, value |-> v] ELSE p

\* A promise under settlement together with the calls of its resolve and
\* reject functions made so far.
Fresh == [promise |-> Pending, log |-> <<>>]

resolve(st, v) ==
    [promise |-> Settle(st.promise, "fulfilled", v),
     log |-> Append(st.log, [kind |-> "resolve", value |-> v])]

reject(st, v) ==
    [promise |-> Settle(st.promise, "rejected", v),
     log |-> Append(st.log, [kind |-> "reject", value |-> v])]

(***************************************************************************)
(* The rejection values.                                                   *)
(***************************************************************************)
NoTeamAtRank ==
    [errorMsg |-> <<"No team at the given rank">>, hasError |-> TRUE,
     isClinched |-> FALSE, isIneligible |-> FALSE,
     rank |-> Null, score |-> Null, team |-> Null]

NoTeamWithName ==
    [error |-> <<"No team with that name exists">>, hasError |-> TRUE,
     isClinched |-> FALSE, isIneligible |-> FALSE,
     rank |-> Null, score |-> Null, team |-> Null]

\* The mutant of NotFound: one message for both lookups.
NotFoundSame(op) == NoTeamWithName

NotFound(op) ==
    IF op = "getRankByStanding" THEN NoTeamAtRank ELSE NoTeamWithName

\* the value of the .catch handlers of the two lookups
FetchFailed(err) ==
    [error |-> <<"Error attempting to fetch rank data\n">> \o err, hasError |-> TRUE,
     isClinched |-> FALSE, isIneligible |-> FALSE,
     rank |-> Null, score |-> Null, team |-> Null]

\* The mutant of FetchingTeamListFailed: the underlying error is left out.
FetchingTeamListFailedBare(err) == <<"Error fetching team list">>

\* the value of the .catch handler of getRankings
FetchingTeamListFailed(err) == <<"Error fetching team list: ">> \o err

(***************************************************************************)
(* The .then handlers of the two lookups.                                  *)
(***************************************************************************)
\* key.rank === rank
StandingMatches(key, rank) == key.rank = rank

\* The mutant of TeamMatches: only the stored name is lower-cased.
TeamMatchesOneSide(key, team) == toLowerCase(key.team) = team

\* key.team.toLowerCase() === team.toLowerCase()
TeamMatches(key, team) == toLowerCase(key.team) = toLowerCase(team)

Matches(op, key, arg) ==
    IF op = "getRankByStanding" THEN StandingMatches(key, arg)
    ELSE TeamMatches(key, arg)

\* for (const key of rankmap.keys()) { if (..) { resolve(rankmap.get(key)); } }
RECURSIVE ScanKeys(_, _, _, _, _)
ScanKeys(st, rankmap, i, op, arg) ==
    IF i > Len(rankmap) THEN st
    ELSE ScanKeys(IF Matches(op, rankmap[i].key, arg)
                  THEN resolve(st, MapGet(rankmap, rankmap[i].key))
                  ELSE st,
                  rankmap, i + 1, op, arg)

\* The mutant of LookupHandler: the not-found reject runs before the loop.
LookupHandlerRejectFirst(st, rankmap, op, arg) ==
    ScanKeys(reject(st, NotFound(op)), rankmap, 1, op, arg)

\* the whole handler: the loop, then the reject after it
LookupHandler(st, rankmap, op, arg) ==
    reject(ScanKeys(st, rankmap, 1, op, arg), NotFound(op))

(***************************************************************************)
(* Inputs of the lookup check.                                             *)
(***************************************************************************)
LookupOps == {"getRankByStanding", "getRankByTeam"}

RankTexts == {<<"1">>, <<"2">>}
TeamTexts == {<<"A", "b">>, <<"a", "B">>, <<"b">>}

LookupRowSet ==
    {MkRow(FALSE, NoStyle, << <<r>>, <<t>>, << <<"9">> >> >>) :
        r \in RankTexts, t \in TeamTexts}
    \cup {MkRow(FALSE, NoStyle, << <<>>, <<>>, <<>> >>)}

RankArgs == {<<>>, <<"1">>, <<"2">>, <<"0", "1">>}
TeamArgs == SeqsUpTo({"A", "a", "b"}, MaxArgLen)

Args(op) == IF op = "getRankByStanding" THEN RankArgs ELSE TeamArgs

\* the .then handler of a lookup runs on the parsed Map
Lookup(op, arg) ==
    /\ ranks.done
    /\ lookup.op = "none"
    /\ lookup' = [op |-> op, arg |-> arg,
                  result |-> LookupHandler(Fresh, ranks.map, op, arg)]
    /\ UNCHANGED <<tableHtml, ranks, calls, requests>>

LookupByStanding == \E rank \in RankArgs : Lookup("getRankByStanding", rank)
LookupByTeam == \E team \in TeamArgs : Lookup("getRankByTeam", team)

InitLookup ==
    /\ \/ tableHtml = NoWikitable
       \/ \E n \in 0..MaxRows : \E rows \in [1..n -> LookupRowSet] :
            tableHtml = Wikitable(rows)
    /\ ranks = NotRun
    /\ lookup = NoLookup
    /\ calls = <<>>
    /\ requests = <<>>

NextLookup == Parse \/ LookupByStanding \/ LookupByTeam

SpecLookup == InitLookup /\ [][NextLookup]_vars

(***************************************************************************)
(* The public operations as concurrent calls.                              *)
(*                                                                         *)
(* A call c holds the promises of its pipeline:                            *)
(*   fetch     the promise returned by cacheFetch (settled by the          *)
(*             collaborator)                                               *)
(*   p1        cacheFetch(..).then(..) of getRankings                      *)
(*   p1c       p1.catch(..) of getRankings                                 *)
(*   rankings  the promise returned by getRankings                         *)
(*   p2        fullRankings.then(..) of a lookup                           *)
(*   p2c       p2.catch(..) of a lookup                                    *)
(*   result    the promise returned by a lookup, with the calls of its     *)
(*             resolve and reject functions                                *)
(* Each handler is one action: handlers run to completion, one at a time.  *)
(***************************************************************************)
CallIds == 1..MaxCalls

NoCall ==
    [op |-> "none", arg |-> <<>>, fetch |-> Pending, p1 |-> Pending,
     p1c |-> Pending, rankings |-> Pending, p2 |-> Pending, p2c |-> Pending,
     result |-> Fresh]

\* The responses of the fetch collaborator.  json.parse.text['*'] is the
\* HTML fragment; a response may lack `parse`, or lack the '*' entry.
JsonOk(html) == [shape |-> "ok", html |-> html]
JsonNoParse == [shape |-> "noParse", html |-> NoWikitable]
JsonNoStar == [shape |-> "noStar", html |-> NoWikitable]

HeaderRow == MkRow(FALSE, NoStyle, << << <<"#">> >>, << <<"T">> >>, << <<"P">> >> >>)
RowAb == MkRow(FALSE, HasStyle(CLINCHED_COLOR_INDICATOR),
               << << <<"1">> >>, << <<"A", "b">> >>, << <<"9">> >> >>)
RowaB == MkRow(FALSE, NoStyle,
               << << <<"1">> >>, << <<"a", "B">> >>, << <<"7">> >> >>)

Pages == {NoWikitable,
          Wikitable(<<HeaderRow, HeaderRow>>),
          Wikitable(<<HeaderRow, HeaderRow, RowAb, RowaB>>)}

Jsons == {JsonOk(h) : h \in Pages} \cup {JsonNoParse, JsonNoStar}

\* what the collaborator rejects with (a network error, a body that is not
\* JSON: the handlers only read the text of the error)
FetchErrors == {<<"FetchError: request failed">>}

CallRankArgs == {<<"1">>}
CallTeamArgs == {<<"a", "b">>, <<"T">>}

\* the error thrown by line 127 on a response without the fragment
\* (json.parse is undefined; cheerio.load(undefined))
ThrownBy(json) ==
    IF json.shape = "noParse"
    THEN <<"TypeError: Cannot read property 'text' of undefined">>
    ELSE <<"TypeError: Cannot read property 'parent' of undefined">>

\* The mutant of IssueRequest: a request in flight is shared.
IssueRequestShared(reqs, c) ==
    IF \E d \in DOMAIN reqs : reqs[d] > 0 THEN reqs
    ELSE [reqs EXCEPT ![c] = @ + 1]

\* this.cacheFetch.cacheFetch(url, requestInfo)
IssueRequest(reqs, c) == [reqs EXCEPT ![c] = @ + 1]

\* A public operation is called: the executors of its promises run, and
\* getRankings issues the request.  Calls are numbered in call order.
Call(c, op, arg) ==
    /\ calls[c].op = "none"
    /\ \A d \in CallIds : d < c => calls[d].op # "none"
    /\ calls' = [calls EXCEPT ![c] = [NoCall EXCEPT !.op = op, !.arg = arg]]
    /\ requests' = IssueRequest(requests, c)
    /\ UNCHANGED <<tableHtml, ranks, lookup>>

getRankings == \E c \in CallIds : Call(c, "getRankings", <<>>)
getRankByStanding ==
    \E c \in CallIds, rank \in CallRankArgs : Call(c, "getRankByStanding", rank)
getRankByTeam ==
    \E c \in CallIds, team \in CallTeamArgs : Call(c, "getRankByTeam", team)

\* the collaborator settles the promise of a request
FetchSettles(c, kind, v) ==
    /\ calls[c].op # "none"
    /\ calls[c].fetch.state = "pending"
    /\ calls' = [calls EXCEPT ![c].fetch = Settle(@, kind, v)]
    /\ UNCHANGED <<tableHtml, ranks, lookup, requests>>

FetchFulfilled == \E c \in CallIds, json \in Jsons : FetchSettles(c, "fulfilled", json)
FetchRejected == \E c \in CallIds, err \in FetchErrors : FetchSettles(c, "rejected", err)

\* (json) => { resolve(this._parseRanks(json.parse.text['*'])); }
RankingsThenHandler(call) ==
    LET json == call.fetch.value
    IN IF json.shape = "ok"
       THEN [call EXCEPT !.rankings = Settle(@, "fulfilled", _parseRanks(json.html)),
                         !.p1 = Settle(@, "fulfilled", <<>>)]
       ELSE [call EXCEPT !.p1 = Settle(@, "rejected", ThrownBy(json))]

\* the reaction of .then (line 126) to the settled fetch
RankingsThen ==
    \E c \in CallIds :
        /\ calls[c].fetch.state # "pending"
        /\ calls[c].p1.state = "pending"
        /\ calls' = [calls EXCEPT ![c] =
                IF calls[c].fetch.state = "fulfilled"
                THEN RankingsThenHandler(calls[c])
                ELSE [calls[c] EXCEPT !.p1 = Settle(@, "rejected", calls[c].fetch.value)]]
        /\ UNCHANGED <<tableHtml, ranks, lookup, requests>>

\* (err) => { reject(`Error fetching team list: ${err}`); }
RankingsCatchHandler(call) ==
    [call EXCEPT !.rankings = Settle(@, "rejected", FetchingTeamListFailed(call.p1.value)),
                 !.p1c = Settle(@, "fulfilled", <<>>)]

\* the reaction of .catch (line 129) to the rejected p1
RankingsCatch ==
    \E c \in CallIds :
        /\ calls[c].p1.state = "rejected"
        /\ calls[c].p1c.state = "pending"
        /\ calls' = [calls EXCEPT ![c] = RankingsCatchHandler(calls[c])]
        /\ UNCHANGED <<tableHtml, ranks, lookup, requests>>

\* (rankmap) => { for ..; reject({..}); } of the two lookups
LookupThenHandler(call) ==
    [call EXCEPT !.result = LookupHandler(@, call.rankings.value, call.op, call.arg),
                 !.p2 = Settle(@, "fulfilled", <<>>)]

\* the reaction of .then (lines 38, 79) to the settled getRankings promise
LookupThen ==
    \E c \in CallIds :
        /\ calls[c].op \in LookupOps
        /\ calls[c].rankings.state # "pending"
        /\ calls[c].p2.state = "pending"
        /\ calls' = [calls EXCEPT ![c] =
                IF calls[c].rankings.state = "fulfilled"
                THEN LookupThenHandler(calls[c])
                ELSE [calls[c] EXCEPT !.p2 = Settle(@, "rejected", calls[c].rankings.value)]]
        /\ UNCHANGED <<tableHtml, ranks, lookup, requests>>

\* (err) => { reject({ error: `Error attempting to fetch rank data\n${err}`, .. }); }
LookupCatchHandler(call) ==
    [call EXCEPT !.result = reject(@, FetchFailed(call.p2.value)),
                 !.p2c = Settle(@, "fulfilled", <<>>)]

\* the reaction of .catch (lines 54, 95) to the rejected p2
LookupCatch ==
    \E c \in CallIds :
        /\ calls[c].p2.state = "rejected"
        /\ calls[c].p2c.state = "pending"
        /\ calls' = [calls EXCEPT ![c] = LookupCatchHandler(calls[c])]
        /\ UNCHANGED <<tableHtml, ranks, lookup, requests>>

Init ==
    /\ tableHtml = NoWikitable
    /\ ranks = NotRun
    /\ lookup = NoLookup
    /\ calls = [c \in CallIds |-> NoCall]
    /\ requests = [c \in CallIds |-> 0]

Next ==
    \/ getRankings
    \/ getRankByStanding
    \/ getRankByTeam
    \/ FetchFulfilled
    \/ FetchRejected
    \/ RankingsThen
    \/ RankingsCatch
    \/ LookupThen
    \/ LookupCatch

Spec == Init /\ [][Next]_vars

\* the promise a call returned
Outcome(c) ==
    IF calls[c].op = "getRankings" THEN calls[c].rankings
    ELSE calls[c].result.promise

\* no handler of call c is left to run
Quiescent(c) ==
    /\ calls[c].op # "none"
    /\ calls[c].p1.state # "pending"
    /\ calls[c].p1.state = "rejected" => calls[c].p1c.state # "pending"
    /\ calls[c].op \in LookupOps =>
        /\ calls[c].p2.state # "pending"
        /\ calls[c].p2.state = "rejected" => calls[c].p2c.state # "pending"

(***************************************************************************)
(* Properties of the extraction (SpecParse).                               *)
(***************************************************************************)
InputRows == IF tableHtml.found THEN tableHtml.rows ELSE <<>>

\* positions (from 1) of the rows that are to give a record
KeptRows == {p \in 1..Len(InputRows) : p - 1 >= 2 /\ ~InputRows[p].expandChild}

TextOf(selection) == IF Len(selection) = 0 THEN <<>> ELSE selection[1]

\* C1: _parseRanks returns exactly one record per row of index >= 2 without
\* the class 'expand-child', in row order, each with the texts of its row;
\* the first two rows and the expand-child rows give no record and no other
\* row is dropped or merged.
C1_OneRecordPerDataRow ==
    ranks.done =>
        /\ Len(ranks.map) = Cardinality(KeptRows)
        /\ \A j \in 1..Len(ranks.map) :
            LET p == ranks.map[j].key.ref + 1
                v == ranks.map[j].value
            IN /\ p \in KeptRows
               /\ Cardinality({q \in KeptRows : q < p}) = j - 1
               /\ v.rank = TextOf(InputRows[p].td0b)
               /\ v.team = TextOf(InputRows[p].td1a)
               /\ v.score = TextOf(InputRows[p].td2b)

\* two equal data rows with empty cell texts behind a header row that is an
\* expand-child row: two records
C1_Witness ==
    /\ ranks.done
    /\ Len(InputRows) = 4
    /\ InputRows[1].expandChild
    /\ InputRows[3] = InputRows[4]
    /\ ~InputRows[3].expandChild
    /\ InputRows[3].td0b = <<>>
    /\ Len(ranks.map) = 2

\* C2: a record of a row with the clinched style has isClinched and not
\* isIneligible, one of a row with the ineligible style has isIneligible and
\* not isClinched, one of a row with another style or none has neither; no
\* record has both.
C2_FlagsFollowStyle ==
    ranks.done =>
        \A j \in 1..Len(ranks.map) :
            LET style == InputRows[ranks.map[j].key.ref + 1].style
                v == ranks.map[j].value
                clinched == ~style.undefined
                            /\ style.text = <<"background-color:rgb(204,255,204)">>
                ineligible == ~style.undefined
                              /\ style.text = <<"background-color:rgb(255,204,204)">>
            IN /\ clinched => v.isClinched /\ ~v.isIneligible
               /\ ineligible => v.isIneligible /\ ~v.isClinched
               /\ ~clinched /\ ~ineligible => ~v.isClinched /\ ~v.isIneligible
               /\ ~(v.isClinched /\ v.isIneligible)

\* a clinched record followed by an ineligible one
C2_Witness ==
    /\ ranks.done
    /\ Len(ranks.map) = 2
    /\ ranks.map[1].value.isClinched
    /\ ranks.map[2].value.isIneligible

(***************************************************************************)
(* Properties of the lookup handlers (SpecLookup).                         *)
(***************************************************************************)
Least(S) == CHOOSE j \in S : \A k \in S : j <= k

RankHits(rank) == {j \in 1..Len(ranks.map) : ranks.map[j].value.rank = rank}

TeamHits(lowered) ==
    {j \in 1..Len(ranks.map) : toLowerCase(ranks.map[j].value.team) = lowered}

Resolves(log) == {i \in 1..Len(log) : log[i].kind = "resolve"}

\* C3: getRankByStanding(r) on a collection with a record of rank r (exact
\* string equality) resolves with the first such record and is not rejected.
C3_FirstRecordOfRank ==
    (lookup.op = "getRankByStanding" /\ RankHits(lookup.arg) # {}) =>
        /\ lookup.result.promise.state = "fulfilled"
        /\ lookup.result.promise.value = ranks.map[Least(RankHits(lookup.arg))].value

\* two different records share the rank asked for
C3_Witness ==
    /\ lookup.op = "getRankByStanding"
    /\ Cardinality(RankHits(lookup.arg)) >= 2
    /\ \E j, k \in RankHits(lookup.arg) :
        j < k /\ ranks.map[j].value # ranks.map[k].value
    /\ lookup.result.promise.state = "fulfilled"

\* C4: the outcome of getRankByTeam(t) is fixed by the lower-cased t: with a
\* record whose lower-cased team equals the lower-cased t it resolves with
\* the first such record, and otherwise it is rejected.
C4_TeamCaseInsensitive ==
    lookup.op = "getRankByTeam" =>
        LET hits == TeamHits(toLowerCase(lookup.arg))
        IN IF hits = {}
           THEN lookup.result.promise.state = "rejected"
           ELSE /\ lookup.result.promise.state = "fulfilled"
                /\ lookup.result.promise.value = ranks.map[Least(hits)].value

\* an argument with a capital finds the first of two records that spell the
\* team differently from it
C4_Witness ==
    /\ lookup.op = "getRankByTeam"
    /\ lookup.arg # toLowerCase(lookup.arg)
    /\ Cardinality(TeamHits(toLowerCase(lookup.arg))) >= 2
    /\ lookup.result.promise.state = "fulfilled"
    /\ lookup.result.promise.value.team # lookup.arg

\* C5: when no record matches, the lookup never resolves and is rejected
\* with 'No team at the given rank' (getRankByStanding) or with 'No team
\* with that name exists' (getRankByTeam).
C5_NotFoundMessages ==
    /\ (lookup.op = "getRankByStanding" /\ RankHits(lookup.arg) = {}) =>
        /\ Resolves(lookup.result.log) = {}
        /\ lookup.result.promise.state = "rejected"
        /\ "errorMsg" \in DOMAIN lookup.result.promise.value
        /\ lookup.result.promise.value.errorMsg = <<"No team at the given rank">>
    /\ (lookup.op = "getRankByTeam" /\ TeamHits(toLowerCase(lookup.arg)) = {}) =>
        /\ Resolves(lookup.result.log) = {}
        /\ lookup.result.promise.state = "rejected"
        /\ "error" \in DOMAIN lookup.result.promise.value
        /\ lookup.result.promise.value.error = <<"No team with that name exists">>

\* a rank that no record of a collection of two has
C5_Witness ==
    /\ lookup.op = "getRankByStanding"
    /\ Len(ranks.map) = 2
    /\ RankHits(lookup.arg) = {}
    /\ lookup.result.promise.state = "rejected"

(***************************************************************************)
(* Properties of the calls (Spec).                                         *)
(***************************************************************************)
Started == {c \in CallIds : calls[c].op # "none"}

\* the fields of the value a call was rejected with (a string has none)
RejectionFields(c) ==
    IF calls[c].op = "getRankings" THEN {} ELSE DOMAIN Outcome(c).value

ErrorRecordFields(messageField) ==
    {messageField, "hasError", "isClinched", "isIneligible", "rank", "score", "team"}

\* C6: every failure path of the three operations rejects with a value of
\* one shape: one message field, hasError true, rank, team and score null,
\* isClinched and isIneligible false.
C6_UniformErrorShape ==
    \E messageField \in {"errorMsg", "error"} :
        \A c \in Started :
            Outcome(c).state = "rejected" =>
                /\ RejectionFields(c) = ErrorRecordFields(messageField)
                /\ Outcome(c).value.hasError
                /\ Outcome(c).value.rank = Null
                /\ Outcome(c).value.team = Null
                /\ Outcome(c).value.score = Null
                /\ ~Outcome(c).value.isClinched
                /\ ~Outcome(c).value.isIneligible

\* the fetch of call c failed: the collaborator rejected, or its response
\* has no fragment
FetchFailure(c) ==
    \/ calls[c].fetch.state = "rejected"
    \/ calls[c].fetch.state = "fulfilled" /\ calls[c].fetch.value.shape # "ok"

\* the text of the error the failure starts from
OriginalError(c) ==
    IF calls[c].fetch.state = "rejected" THEN calls[c].fetch.value
    ELSE IF calls[c].fetch.value.shape = "noParse"
         THEN <<"TypeError: Cannot read property 'text' of undefined">>
         ELSE <<"TypeError: Cannot read property 'parent' of undefined">>

\* the message a rejected call carries
RejectionMessage(c) ==
    IF calls[c].op = "getRankings" THEN Outcome(c).value
    ELSE Outcome(c).value.error

Contains(s, t) ==
    \E i \in 1..(Len(s) + 1) :
        i + Len(t) - 1 <= Len(s) /\ SubSeq(s, i, i + Len(t) - 1) = t

\* C7: a call returns a pending promise; when its fetch fails, its promise
\* is never resolved, and once its handlers have run it is rejected with a
\* message that contains the text of the original error.
C7_FetchFailureRejects ==
    \A c \in Started :
        /\ calls[c].fetch.state = "pending" => Outcome(c).state = "pending"
        /\ FetchFailure(c) =>
            /\ Outcome(c).state # "fulfilled"
            /\ Resolves(calls[c].result.log) = {}
            /\ Quiescent(c) =>
                /\ Outcome(c).state = "rejected"
                /\ Contains(RejectionMessage(c), OriginalError(c))

\* a lookup and a getRankings, one with a rejected request and one with a
\* response without the fragment, both rejected
C7_Witness ==
    \E c, d \in Started :
        /\ calls[c].op = "getRankings" /\ calls[d].op \in LookupOps
        /\ FetchFailure(c) /\ FetchFailure(d)
        /\ calls[c].fetch.state # calls[d].fetch.state
        /\ Quiescent(c) /\ Quiescent(d)
        /\ Outcome(c).state = "rejected" /\ Outcome(d).state = "rejected"

\* the fetched fragment has no .wikitable element, or one of two rows or less
EmptyTable(c) ==
    /\ calls[c].fetch.state = "fulfilled"
    /\ calls[c].fetch.value.shape = "ok"
    /\ \/ ~calls[c].fetch.value.html.found
       \/ Len(calls[c].fetch.value.html.rows) <= 2

\* C8: on a fragment without a matching table, or with no row past the two
\* header rows, extraction raises no error: getRankings resolves with the
\* empty collection and a lookup is rejected with its not-found error.
C8_EmptyTableIsNotFound ==
    \A c \in Started :
        EmptyTable(c) =>
            /\ calls[c].p1.state # "rejected"
            /\ Quiescent(c) =>
                CASE calls[c].op = "getRankings" ->
                        /\ Outcome(c).state = "fulfilled"
                        /\ Outcome(c).value = <<>>
                  [] calls[c].op = "getRankByStanding" ->
                        /\ Outcome(c).state = "rejected"
                        /\ "errorMsg" \in DOMAIN Outcome(c).value
                        /\ Outcome(c).value.errorMsg = <<"No team at the given rank">>
                  [] calls[c].op = "getRankByTeam" ->
                        /\ Outcome(c).state = "rejected"
                        /\ Outcome(c).value.error = <<"No team with that name exists">>

\* a getRankings on a fragment without table and a lookup by the text of a
\* header cell on a table of two rows
C8_Witness ==
    \E c, d \in Started :
        /\ EmptyTable(c) /\ EmptyTable(d)
        /\ Quiescent(c) /\ Quiescent(d)
        /\ calls[c].op = "getRankings" /\ ~calls[c].fetch.value.html.found
        /\ calls[d].op = "getRankByTeam" /\ calls[d].arg = <<"T">>
        /\ calls[d].fetch.value.html.found
        /\ Outcome(d).state = "rejected"

SamePromise(p, q) == p.state = q.state /\ p.value = q.value

SameCall(a, b) ==
    /\ a.op = b.op /\ a.arg = b.arg
    /\ SamePromise(a.fetch, b.fetch)
    /\ SamePromise(a.p1, b.p1) /\ SamePromise(a.p1c, b.p1c)
    /\ SamePromise(a.rankings, b.rankings)
    /\ SamePromise(a.p2, b.p2) /\ SamePromise(a.p2c, b.p2c)
    /\ SamePromise(a.result.promise, b.result.promise)
    /\ Len(a.result.log) = Len(b.result.log)

\* C9: every call has issued exactly one request, whatever became of it; a
\* step changes one call only; two calls of the same operation and argument
\* whose requests had the same outcome end the same.
C9_OneRequestPerCall ==
    /\ [](\A c \in CallIds :
            requests[c] = IF calls[c].op = "none" THEN 0 ELSE 1)
    /\ [](\A c, d \in Started :
            (/\ Quiescent(c) /\ Quiescent(d)
             /\ calls[c].op = calls[d].op /\ calls[c].arg = calls[d].arg
             /\ SamePromise(calls[c].fetch, calls[d].fetch))
            => SamePromise(Outcome(c), Outcome(d)))
    /\ [][\A c, d \in CallIds :
            (c # d /\ ~SameCall(calls'[c], calls[c])) =>
                SameCall(calls'[d], calls[d]) /\ requests'[d] = requests[d]]_vars

\* one call has failed and is over, another has its request in flight
C9_Witness ==
    \E c, d \in Started :
        /\ Quiescent(c) /\ FetchFailure(c)
        /\ calls[d].fetch.state = "pending"
        /\ requests[c] = 1 /\ requests[d] = 1

Last(s) == s[Len(s)]

CallHits(c) ==
    LET rankmap == calls[c].rankings.value
    IN {j \in 1..Len(rankmap) :
            IF calls[c].op = "getRankByStanding"
            THEN rankmap[j].value.rank = calls[c].arg
            ELSE toLowerCase(rankmap[j].value.team) = toLowerCase(calls[c].arg)}

\* C10: the handler of a lookup calls resolve once per matching record and
\* then reject; the outcome is that of the first of these calls, so a call
\* with a match is fulfilled and never reports not-found, and a settled
\* promise does not change.
C10_FirstSettleWins ==
    /\ [](\A c \in Started :
            (calls[c].op \in LookupOps /\ calls[c].p2.state = "fulfilled") =>
                LET log == calls[c].result.log
                IN /\ Cardinality(Resolves(log)) = Cardinality(CallHits(c))
                   /\ Len(log) = Cardinality(CallHits(c)) + 1
                   /\ Last(log).kind = "reject"
                   /\ Outcome(c).state =
                        IF log[1].kind = "resolve" THEN "fulfilled" ELSE "rejected"
                   /\ Outcome(c).value = log[1].value
                   /\ CallHits(c) # {} => Outcome(c).state = "fulfilled")
    /\ [][\A c \in CallIds :
            (calls[c].op # "none" /\ Outcome(c).state # "pending") =>
                SamePromise(Outcome(c)', Outcome(c))]_vars

\* two resolves and the reject on one promise, which is fulfilled with the
\* first record
C10_Witness ==
    \E c \in Started :
        /\ calls[c].op \in LookupOps
        /\ Len(calls[c].result.log) = 3
        /\ Outcome(c).state = "fulfilled"
        /\ Outcome(c).value = calls[c].rankings.value[1].value
        /\ calls[c].rankings.value[1].value # calls[c].rankings.value[2].value
====
